---- MODULE Spec2Model ----
(***************************************************************************)
(* The useQuery hook of penx/usequery (src/unnamed/part_000): one hook     *)
(* instance, driven by render cycles, refetch calls and the settlement of  *)
(* the promises the caller's query function returned.                      *)
(***************************************************************************)
EXTENDS Integers, Sequences, FiniteSets, TLC

\* ------------------------------------------------------------------ bounds
MaxAttempts == 2        \* fetch attempts (query invocations) per behaviour
MaxStarts == 3          \* fetch attempts per behaviour of SpecRefetching

\* ------------------------------------------------------------- value sets
\* The promise of attempt i settles with a value of its own, so that whose
\* value a cell holds can be told: Response(i) when it resolves, Failure(i)
\* when it rejects; ThrownBy(i) is what its onCompleted throws, if it throws.
Null == [kind |-> "null", of |-> 0]
Response(i) == [kind |-> "response", of |-> i]
Failure(i) == [kind |-> "failure", of |-> i]
ThrownBy(i) == [kind |-> "thrown", of |-> i]
\* The onCompleted option: absent, or a function; g is a function that throws
\* when it is invoked, f returns. The onError option: a function.
OnCompleted == {"undefined", "f", "g"}
OnError == {"h"}
Throws(callback) == callback = "g"
SkipValues == BOOLEAN                       \* the skip option
Queries == {"query"}                \* identities of the query function
Keys == {"a", "b"}
NoField == "-"
ObjectIds == {"o1", "o2"}

\* A JS value of type Variables | undefined: an object has an identity (id)
\* and a content (val: key -> field value, NoField where the key is absent).
EmptyVal == [k \in Keys |-> NoField]
Undefined == [tag |-> "undefined", id |-> NoField, val |-> EmptyVal]
Obj(i, v) == [tag |-> "object", id |-> i, val |-> v]
RenderVals == {[a |-> "x", b |-> "x"], [a |-> "y", b |-> "x"]}
OverrideVals == {[a |-> "y", b |-> NoField]}
RenderVariables == {Undefined} \cup {Obj(i, v) : i \in ObjectIds, v \in RenderVals}
RefetchVariables == {Undefined} \cup {Obj("new", v) : v \in OverrideVals}

Truthy(v) == v.tag # "undefined"
\* `!skip` / `if (!skip)`
NotSkip(sk) == ~sk

VARIABLES
    data, previousData, loading, error,  \* the four refs of the result record
    cancelLast,      \* cancelLast.current: the attempt whose isLatest it clears, 0 = undefined
    attempts,        \* one record per call of fetch: its closure and its promise chain
    ref,             \* useMemoWhenEqual's ref.current
    options,         \* the options of the latest render cycle
    query,           \* the query function of the latest render cycle
    fetch,           \* the current fetch closure: the values it captured
    result,          \* the result surface the latest render cycle returned
    calls,           \* the calls the latest step made out of the hook, in order
    mounted          \* the component that uses the hook is still mounted

vars == <<data, previousData, loading, error, cancelLast, attempts,
          ref, options, query, fetch, result, calls, mounted>>

\* The mutable cells fetch and its handlers work on, and the calls they make.
Cells == [data |-> data, previousData |-> previousData, loading |-> loading,
          error |-> error, cancelLast |-> cancelLast, attempts |-> attempts,
          calls |-> <<>>]

\* ---------------------------------------------------------------- helpers
\* @wry/equality equal(a, b): deep structural equality, identity plays no part.
equal(a, b) == a.tag = b.tag /\ a.val = b.val

\* Mutant of useMemoWhenEqual: the ref adopts every value it is given.
useMemoAlways(current, value) == value

\* useMemoWhenEqual: the new ref.current after the cycle is given `value`.
useMemoWhenEqual(current, value) ==
    IF ~equal(current, value) THEN value ELSE current

\* Object.assign({}, variables, refetchVariables)
ObjectAssign(variables, refetchVariables) ==
    Obj("new", [k \in Keys |->
        IF refetchVariables.val[k] # NoField THEN refetchVariables.val[k]
        ELSE variables.val[k]])

mergedVariables(f, refetchVariables) ==
    IF Truthy(refetchVariables) THEN ObjectAssign(f.variables, refetchVariables)
    ELSE f.variables

\* The argument list of query(...(mergedVariables ? [mergedVariables] : []))
QueryArgs(merged) == IF Truthy(merged) THEN <<merged.val>> ELSE <<>>

\* The calls out of the hook: query(...args) for attempt `of`, forceUpdate(),
\* and callback(value) of attempt `of`.
QueryCall(i, args) ==
    [fn |-> "query", of |-> i, args |-> args, callback |-> "-", value |-> Null]
ForceUpdateCall ==
    [fn |-> "forceUpdate", of |-> 0, args |-> <<>>, callback |-> "-", value |-> Null]
CallbackCall(name, i, callback, value) ==
    [fn |-> name, of |-> i, args |-> <<>>, callback |-> callback, value |-> value]

\* callback?.(value)
OptionalCall(name, i, callback, value) ==
    IF callback # "undefined" THEN <<CallbackCall(name, i, callback, value)>> ELSE <<>>

\* useCallback(..., [query, variables, onCompleted, onError]): the closure.
FetchClosure(q, variables, onCompleted, onError) ==
    [query |-> q, variables |-> variables,
     onCompleted |-> onCompleted, onError |-> onError]

\* useCallback keeps the previous closure unless a dependency changed (Object.is).
useCallback(previous, next) ==
    IF previous = next THEN previous ELSE next

\* Mutant of CallCancelLast: the previous attempt is not cancelled.
CallCancelLastNoOp(c) == c.attempts

\* cancelLast.current?.()
CallCancelLast(c) ==
    IF c.cancelLast = 0 THEN c.attempts
    ELSE [c.attempts EXCEPT ![c.cancelLast].isLatest = FALSE]

\* The closure of one call of fetch and the chain query(...).then(...).catch(...):
\* status is the state of the chain (of the promise fetch returns), settled that
\* of the promise query returned.
NewAttempt(f, manual) ==
    [isLatest |-> TRUE, status |-> "pending", settled |-> "no",
     onCompleted |-> f.onCompleted, onError |-> f.onError, manual |-> manual]

\* Mutant of FetchStart: error.current is not reset when an attempt starts.
FetchStartKeepsError(c, f, refetchVariables, manual) ==
    [c EXCEPT !.previousData = c.data,
              !.data = Null,
              !.loading = TRUE,
              !.attempts = Append(CallCancelLast(c), NewAttempt(f, manual)),
              !.cancelLast = Len(c.attempts) + 1,
              !.calls = c.calls \o <<QueryCall(Len(c.attempts) + 1,
                            QueryArgs(mergedVariables(f, refetchVariables)))>>]

\* The synchronous part of fetch(refetchVariables), up to and including the
\* call of query: the cells after it.
FetchStart(c, f, refetchVariables, manual) ==
    [c EXCEPT !.previousData = c.data,
              !.data = Null,
              !.loading = TRUE,
              !.error = Null,
              !.attempts = Append(CallCancelLast(c), NewAttempt(f, manual)),
              !.cancelLast = Len(c.attempts) + 1,
              !.calls = c.calls \o <<QueryCall(Len(c.attempts) + 1,
                            QueryArgs(mergedVariables(f, refetchVariables)))>>]

\* Mutant of ThenHandler: a success of the current attempt leaves loading set.
ThenHandlerKeepsLoading(c, i, response) ==
    LET a == c.attempts[i]
        threw == a.isLatest /\ Throws(a.onCompleted)
        after == [a EXCEPT !.settled = "resolved",
                           !.status = IF threw THEN "thrown" ELSE "fulfilled"]
    IN IF a.isLatest
       THEN [c EXCEPT !.data = response,
                      !.error = Null,
                      !.calls = c.calls \o <<ForceUpdateCall>>
                                \o OptionalCall("onCompleted", i, a.onCompleted, response),
                      !.attempts[i] = after]
       ELSE [c EXCEPT !.attempts[i] = after]

\* .then((response) => {...}) of attempt i.
ThenHandler(c, i, response) ==
    LET a == c.attempts[i]
        threw == a.isLatest /\ Throws(a.onCompleted)
        after == [a EXCEPT !.settled = "resolved",
                           !.status = IF threw THEN "thrown" ELSE "fulfilled"]
    IN IF a.isLatest
       THEN [c EXCEPT !.data = response,
                      !.loading = FALSE,
                      !.error = Null,
                      !.calls = c.calls \o <<ForceUpdateCall>>
                                \o OptionalCall("onCompleted", i, a.onCompleted, response),
                      !.attempts[i] = after]
       ELSE [c EXCEPT !.attempts[i] = after]

\* Mutant of CatchHandler: a failure of the current attempt also clears previousData.
CatchHandlerClearsPrevious(c, i, e) ==
    LET a == c.attempts[i]
        after == [a EXCEPT !.status = "rejected",
                           !.settled = IF a.settled = "no" THEN "rejected" ELSE a.settled]
    IN IF a.isLatest
       THEN [c EXCEPT !.loading = FALSE,
                      !.error = e,
                      !.previousData = Null,
                      !.calls = c.calls \o <<ForceUpdateCall>>
                                \o OptionalCall("onError", i, a.onError, e),
                      !.attempts[i] = after]
       ELSE [c EXCEPT !.attempts[i] = after]

\* Mutant of CatchHandler: the failure is recorded but onError is not invoked.
CatchHandlerNoCallback(c, i, e) ==
    LET a == c.attempts[i]
        after == [a EXCEPT !.status = "rejected",
                           !.settled = IF a.settled = "no" THEN "rejected" ELSE a.settled]
    IN IF a.isLatest
       THEN [c EXCEPT !.loading = FALSE,
                      !.error = e,
                      !.calls = c.calls \o <<ForceUpdateCall>>,
                      !.attempts[i] = after]
       ELSE [c EXCEPT !.attempts[i] = after]

\* .catch((e) => {...}) of attempt i; it rethrows, so the chain ends rejected.
CatchHandler(c, i, e) ==
    LET a == c.attempts[i]
        after == [a EXCEPT !.status = "rejected",
                           !.settled = IF a.settled = "no" THEN "rejected" ELSE a.settled]
    IN IF a.isLatest
       THEN [c EXCEPT !.loading = FALSE,
                      !.error = e,
                      !.calls = c.calls \o <<ForceUpdateCall>>
                                \o OptionalCall("onError", i, a.onError, e),
                      !.attempts[i] = after]
       ELSE [c EXCEPT !.attempts[i] = after]

\* Mutant of AutoTrigger: the skip flag is not consulted.
AutoTriggerIgnoresSkip(c, f, sk, depsChanged) ==
    IF depsChanged THEN FetchStart(c, f, Undefined, FALSE) ELSE c

\* useMemo(async () => { if (!skip) { try { await fetch() } catch (e) {} } }, [fetch, skip])
\* depsChanged: fetch or skip differs from the previous cycle (or first cycle).
AutoTrigger(c, f, sk, depsChanged) ==
    IF depsChanged /\ NotSkip(sk) THEN FetchStart(c, f, Undefined, FALSE) ELSE c

\* Mutant of refetch: the attempt is started but forceUpdate is not called.
refetchWithoutForceUpdate(c, f, refetchVariables) ==
    FetchStart(c, f, refetchVariables, TRUE)

\* const refetch = (refetchVariables) => { const result = fetch(refetchVariables); forceUpdate(...); return result }
refetch(c, f, refetchVariables) ==
    LET started == FetchStart(c, f, refetchVariables, TRUE)
    IN [started EXCEPT !.calls = started.calls \o <<ForceUpdateCall>>]

\* Who is handed the promise fetch returned, and so its rejection: refetch
\* returns it to its caller; the useMemo callback awaits it inside try/catch
\* and drops what it throws.
Receiver(a) == IF a.manual THEN "caller" ELSE "none"

\* The object returned by the hook.
Surface(c) == [loading |-> c.loading, error |-> c.error, data |-> c.data,
               previousData |-> c.previousData]

MakeOptions(pv, sk, oc, oe) ==
    [variables |-> pv, skip |-> sk, onCompleted |-> oc, onError |-> oe]

\* The cells the refs hold when the first cycle creates them.
InitialCells(sk) ==
    [data |-> Null, previousData |-> Null, loading |-> NotSkip(sk), error |-> Null,
     cancelLast |-> 0, attempts |-> <<>>, calls |-> <<>>]

\* Nothing reads what a closure captured once its handlers can no longer run
\* their guarded part: the chain has ended, or isLatest was cleared (it is
\* never set again). Such closures keep only what is still observable: of an
\* ended chain, how it and the promise of query ended.
Collect(a) ==
    IF a.status \in {"fulfilled", "rejected"}
    THEN [a EXCEPT !.isLatest = FALSE, !.onCompleted = "undefined",
                   !.onError = "undefined", !.manual = FALSE]
    ELSE IF ~a.isLatest
    THEN [a EXCEPT !.onCompleted = "undefined", !.onError = "undefined"]
    ELSE a

\* ------------------------------------------------------------------- Init
\* The state after the first render cycle.
Init ==
    \E q \in Queries, sk \in SkipValues, oc \in OnCompleted, oe \in OnError,
       pv \in {v \in RenderVariables : v.id \in {NoField, "o1"}} :
        LET f == FetchClosure(q, pv, oc, oe)
            c == AutoTrigger(InitialCells(sk), f, sk, TRUE)
        IN /\ data = c.data
           /\ previousData = c.previousData
           /\ loading = c.loading
           /\ error = c.error
           /\ cancelLast = c.cancelLast
           /\ attempts = c.attempts
           /\ calls = c.calls
           /\ ref = pv
           /\ options = MakeOptions(pv, sk, oc, oe)
           /\ query = q
           /\ fetch = f
           /\ result = Surface(c)
           /\ mounted = TRUE

SetCells(c) ==
    /\ data' = c.data
    /\ previousData' = c.previousData
    /\ loading' = c.loading
    /\ error' = c.error
    /\ cancelLast' = c.cancelLast
    /\ attempts' = [i \in 1..Len(c.attempts) |-> Collect(c.attempts[i])]
    /\ calls' = c.calls

\* What the caller can pass as options.variables: nothing, the object
\* ref.current holds, or another object (one constructed for this cycle, or
\* one passed before that the ref did not adopt) of any content.
Passable ==
    {Undefined, ref}
    \cup {Obj(CHOOSE i \in ObjectIds : i # ref.id, v) : v \in RenderVals}

\* ---------------------------------------------------------------- actions
\* A render cycle after the first: useQuery(q, {variables: pv, skip: sk, onCompleted: oc, onError: oe}).
Render(q, pv, sk, oc, oe) ==
    /\ mounted
    /\ pv \in Passable
    /\ LET variables == useMemoWhenEqual(ref, pv)
           f == useCallback(fetch, FetchClosure(q, variables, oc, oe))
           c == AutoTrigger(Cells, f, sk, f # fetch \/ sk # options.skip)
       IN /\ Len(c.attempts) <= MaxAttempts
          /\ SetCells(c)
          /\ ref' = variables
          /\ fetch' = f
          /\ result' = Surface(c)
    /\ options' = MakeOptions(pv, sk, oc, oe)
    /\ query' = q
    /\ UNCHANGED mounted

\* result.refetch(refetchVariables), the refetch of the latest render cycle,
\* called by the component that received it, while it is mounted.
Refetch(refetchVariables) ==
    /\ mounted
    /\ Len(attempts) < MaxAttempts
    /\ SetCells(refetch(Cells, fetch, refetchVariables))
    /\ UNCHANGED <<ref, options, query, fetch, result, mounted>>

\* The promise query returned for attempt i resolves.
Resolve(i) ==
    /\ i \in 1..Len(attempts)
    /\ attempts[i].status = "pending"
    /\ SetCells(ThenHandler(Cells, i, Response(i)))
    /\ UNCHANGED <<ref, options, query, fetch, result, mounted>>

\* The promise query returned for attempt i rejects.
Reject(i) ==
    /\ i \in 1..Len(attempts)
    /\ attempts[i].status = "pending"
    /\ SetCells(CatchHandler(Cells, i, Failure(i)))
    /\ UNCHANGED <<ref, options, query, fetch, result, mounted>>

\* The then handler of attempt i threw (onCompleted threw): its catch handler runs.
CatchThrown(i) ==
    /\ i \in 1..Len(attempts)
    /\ attempts[i].status = "thrown"
    /\ SetCells(CatchHandler(Cells, i, ThrownBy(i)))
    /\ UNCHANGED <<ref, options, query, fetch, result, mounted>>

\* React unmounts the component. The hook registers no effect and no cleanup,
\* so no code of it runs: the refs, the closures and the pending chains stay.
Unmount ==
    /\ mounted
    /\ mounted' = FALSE
    /\ calls' = <<>>
    /\ UNCHANGED <<data, previousData, loading, error, cancelLast, attempts,
                   ref, options, query, fetch, result>>

Next ==
    \/ \E q \in Queries, pv \in Passable, sk \in SkipValues,
          oc \in OnCompleted, oe \in OnError : Render(q, pv, sk, oc, oe)
    \/ \E rv \in RefetchVariables : Refetch(rv)
    \/ \E i \in 1..MaxAttempts : Resolve(i)
    \/ \E i \in 1..MaxAttempts : Reject(i)
    \/ \E i \in 1..MaxAttempts : CatchThrown(i)
    \/ Unmount

Spec == Init /\ [][Next]_vars

\* Every promise query returned settles at some time, and a handler that is
\* due runs (the microtask queue is drained): while a chain has a step to
\* take, some chain takes a step.
FairSpec ==
    /\ Init /\ [][Next]_vars
    /\ WF_vars(\E i \in 1..MaxAttempts : Resolve(i) \/ Reject(i) \/ CatchThrown(i))

\* A component that renders once and from then on only calls refetch: fewer
\* inputs, so that behaviours with one more attempt can be explored.
RefetchAgain(refetchVariables) ==
    /\ mounted
    /\ Len(attempts) < MaxStarts
    /\ SetCells(refetch(Cells, fetch, refetchVariables))
    /\ UNCHANGED <<ref, options, query, fetch, result, mounted>>

NextRefetching ==
    \/ \E rv \in RefetchVariables : RefetchAgain(rv)
    \/ \E i \in 1..MaxStarts : Resolve(i)
    \/ \E i \in 1..MaxStarts : Reject(i)
    \/ \E i \in 1..MaxStarts : CatchThrown(i)

SpecRefetching == Init /\ [][NextRefetching]_vars

TypeOK ==
    /\ data.kind \in {"null", "response"}
    /\ previousData.kind \in {"null", "response"}
    /\ loading \in BOOLEAN
    /\ mounted \in BOOLEAN
    /\ error.kind \in {"null", "failure", "thrown"}
    /\ cancelLast = Len(attempts)
    /\ Len(attempts) <= MaxAttempts
    /\ equal(ref, options.variables)
    /\ fetch = FetchClosure(query, ref, options.onCompleted, options.onError)
\* ---------------------------------------------------------- step vocabulary
\* The step starts a fetch attempt (one more call of fetch).
Started == Len(attempts') = Len(attempts) + 1
\* The step runs a handler of the chain of attempt i.
ChainStep(i) == i \in 1..Len(attempts) /\ attempts'[i].status # attempts[i].status
\* The step is a call of refetch.
RefetchStep == Started /\ attempts'[Len(attempts')].manual
\* The step is a render cycle.
RenderStep == mounted' /\ ~RefetchStep /\ \A i \in 1..Len(attempts) : ~ChainStep(i)
\* The query promise of attempt i settles in this step while i is current.
SettlesCurrent(i, how) ==
    /\ attempts[i].status = "pending" /\ attempts[i].isLatest
    /\ attempts'[i].settled = how

Record == <<data, previousData, loading, error>>
IsQueryCall(c) == c.fn = "query"
IsCallback(c) == c.fn \in {"onCompleted", "onError"}
QueryCalls(s) == SelectSeq(s, IsQueryCall)
CallbackCalls(s) == SelectSeq(s, IsCallback)

\* ------------------------------------------------------------------ claims
\* C1, first part: the settlement of an attempt that is not the most recently
\* started one changes no cell of the result record and makes no call
\* (no forceUpdate, no callback).
C1_StaleSettlementIsNoOp ==
    \A i \in 1..Len(attempts) :
        ChainStep(i) /\ i # Len(attempts) => Record' = Record /\ calls' = <<>>

\* C1, second part: once the most recently started attempt has resolved, the
\* record holds its result: data = its response, loading = false, error = null.
C1_RaceFinal ==
    LET n == Len(attempts)
    IN n > 0 /\ attempts[n].settled = "resolved"
        => data = Response(n) /\ ~loading /\ error = Null

\* C1: only the most recently started attempt acts at settlement, and after
\* it resolved the record is {data: its result, loading: false, error: null},
\* whatever older attempts do afterwards.
C1_OnlyNewestAttemptActs ==
    [][C1_StaleSettlementIsNoOp /\ C1_RaceFinal']_vars

\* The callback invocations the claim C2 attributes to attempt i in a step:
\* onCompleted(result) when it resolves while current, onError(failure) when it
\* rejects while current (where the option is supplied), none in any other step.
C2_Expected(i) ==
    LET a == attempts[i]
    IN IF SettlesCurrent(i, "resolved") /\ a.onCompleted # "undefined"
       THEN <<CallbackCall("onCompleted", i, a.onCompleted, Response(i))>>
       ELSE IF SettlesCurrent(i, "rejected") /\ a.onError # "undefined"
       THEN <<CallbackCall("onError", i, a.onError, Failure(i))>>
       ELSE <<>>

C2_CallbacksOf(i) ==
    LET Mine(c) == IsCallback(c) /\ c.of = i IN SelectSeq(calls', Mine)

\* C2: an attempt that settles while current gets exactly one callback
\* invocation (onCompleted(result) and never onError on success, onError(failure)
\* and never onCompleted on failure); a superseded attempt gets none.
C2_CallbackExactlyOnce ==
    [][\A i \in 1..Len(attempts) : C2_CallbacksOf(i) = C2_Expected(i)]_vars

\* C3: loading = true implies data = null and error = null, in the refs and in
\* every result surface a render cycle returned.
C3_LoadingImpliesNoDataNoError ==
    /\ loading => data = Null /\ error = Null
    /\ result.loading => result.data = Null /\ result.error = Null

\* C3's case: an attempt in flight that was started after a success and a failure.
C3_Witness ==
    /\ loading /\ Len(attempts) = 2
    /\ attempts[1].status = "rejected" /\ attempts[2].status = "pending"

\* C4: at most one of data and error is non-null.
C4_NotBothDataAndError == ~(data # Null /\ error # Null)

\* C5: previousData changes only in a step that starts an attempt, where it
\* takes the value data held before the step; every other step leaves it.
C5_PreviousDataOnlyAtStart ==
    [][IF Started THEN previousData' = data ELSE previousData' = previousData]_vars

\* C5's case: an attempt started after a success has failed, previousData kept.
C5_Witness ==
    /\ previousData = Response(1) /\ error = Failure(2) /\ ~loading

\* C6: a step that starts an attempt supersedes every older attempt, sets
\* previousData to the prior data, data = null, error = null, loading = true and
\* calls query exactly once; a render cycle that does so returns that record.
C6_AttemptStart ==
    [][Started =>
        LET n == Len(attempts')
        IN /\ \A i \in 1..Len(attempts) : ~attempts'[i].isLatest
           /\ attempts'[n].isLatest /\ attempts'[n].status = "pending"
           /\ previousData' = data /\ data' = Null /\ error' = Null /\ loading'
           /\ Len(QueryCalls(calls')) = 1 /\ QueryCalls(calls')[1].of = n
           /\ (RenderStep => result' = [loading |-> TRUE, error |-> Null,
                                        data |-> Null, previousData |-> data])]_vars

\* C6's case: the cycle that started attempt 2 after attempt 1 succeeded
\* returned loading = true, data = null, previousData = the first result.
C6_Witness ==
    /\ Len(attempts) = 2 /\ attempts[2].status = "pending" /\ ~attempts[2].manual
    /\ result = [loading |-> TRUE, error |-> Null, data |-> Null,
                 previousData |-> Response(1)]
    /\ Len(QueryCalls(calls)) = 1

\* C7: a cycle with skip = true, at creation or when skip changes from false to
\* true, returns loading = false and error = null, data and previousData as before.
C7_SkipCycleDelivers ==
    /\ options.skip => ~result.loading /\ result.error = Null
    /\ [][RenderStep /\ ~options.skip /\ options'.skip =>
            /\ ~result'.loading /\ result'.error = Null
            /\ result'.data = data /\ result'.previousData = previousData]_vars

\* C8: created with skip = true the hook calls query in no cycle while skip
\* stays true, and the cycle in which skip turns false starts exactly one
\* attempt, called with the variables of that cycle.
C8_SkipGatesAutoTrigger ==
    /\ options.skip => attempts = <<>> /\ calls = <<>>
    /\ [][RenderStep =>
            /\ options'.skip =>
                 Len(attempts') = Len(attempts) /\ QueryCalls(calls') = <<>>
            /\ options.skip /\ ~options'.skip =>
                 /\ Started
                 /\ QueryCalls(calls') = <<QueryCall(Len(attempts) + 1,
                                             QueryArgs(options'.variables))>>]_vars

\* C8's case: the first attempt was a refetch under skip = true (still in
\* flight); the cycle that turned skip off started the second one.
C8_Witness ==
    /\ Len(attempts) = 2 /\ ~options.skip
    /\ attempts[1].manual /\ attempts[1].status = "pending"
    /\ ~attempts[2].manual /\ attempts[2].isLatest
    /\ QueryCalls(calls) = <<QueryCall(2, QueryArgs(options.variables))>>

\* The cycle re-supplies the query function and both callbacks unchanged.
SameFunctions ==
    /\ query' = query
    /\ options'.onCompleted = options.onCompleted
    /\ options'.onError = options.onError

C10_CallbackIdentityInsensitive ==
    [][RenderStep /\ ~options.skip /\ ~options'.skip /\ query' = query
          /\ equal(options'.variables, options.variables) =>
        attempts' = attempts /\ QueryCalls(calls') = <<>>]_vars
\* The callback invocations of a step.
CallbacksMade == CallbackCalls(calls')

\* C11: when a still-current attempt settles, the callback invoked is the one
\* the most recent render cycle supplied (options), not the one supplied when
\* the attempt started.
C11_CallbacksReadAtSettlement ==
    [][\A i \in 1..Len(attempts) :
        /\ SettlesCurrent(i, "resolved") =>
             SelectSeq(calls', LAMBDA c : c.fn = "onCompleted")
               = OptionalCall("onCompleted", i, options.onCompleted, Response(i))
        /\ SettlesCurrent(i, "rejected") =>
             CallbacksMade = OptionalCall("onError", i, options.onError, Failure(i))]_vars
\* The variables an argument list carries, and the argument list refetch(rv)
\* makes of the argument list `prev` of the attempt before it.
ArgsVal(args) == IF args = <<>> THEN EmptyVal ELSE args[1]
OverriddenArgs(prev, rv) ==
    IF Truthy(rv)
    THEN <<[k \in Keys |-> IF rv.val[k] # NoField THEN rv.val[k] ELSE ArgsVal(prev)[k]]>>
    ELSE prev

\* C12: refetch(overrides) invokes query with the variables the most recent
\* attempt used, shallowly overridden by the keys of overrides, and refetch()
\* with exactly the variables the most recent attempt used; stated for a
\* refetch that directly follows the step that started the attempt before it.
C12_RefetchReusesLastVariables ==
    [][(RefetchStep /\ QueryCalls(calls) # <<>>) =>
          \E rv \in RefetchVariables :
              QueryCalls(calls')[1].args = OverriddenArgs(QueryCalls(calls)[1].args, rv)]_vars
\* The promise fetch returned for attempt i rejects in this step, and who
\* receives the rejection.
FutureFails(i) == attempts[i].status # "rejected" /\ attempts'[i].status = "rejected"
FailurePropagatesTo(i) == IF FutureFails(i) THEN Receiver(attempts[i]) ELSE "none"

SettlesStale(i, how) ==
    /\ attempts[i].status = "pending" /\ ~attempts[i].isLatest
    /\ attempts'[i].settled = how

\* C14: the failure of a superseded attempt is discarded: it changes no cell
\* of the record, makes no call, and reaches nobody, the caller holding the
\* future of the refetch call that started the attempt included.
C14_StaleFailureDiscarded ==
    [][\A i \in 1..Len(attempts) : SettlesStale(i, "rejected") =>
          /\ Record' = Record
          /\ calls' = <<>>
          /\ FailurePropagatesTo(i) = "none"]_vars
\* C15: once the component that owns the hook is unmounted, the settlement of
\* an attempt that was in flight changes no cell of the record and makes no
\* call (no forceUpdate, no callback).
C15_SettlementAfterUnmountIsNoOp ==
    [][~mounted => (Record' = Record /\ calls' = <<>>)]_vars
\* The latest step was a call of refetch: it called query, then forceUpdate.
JustRefetched == Len(calls) = 2 /\ calls[1].fn = "query" /\ calls[2] = ForceUpdateCall

\* C16: a call of refetch starts an attempt whatever skip is (query is called
\* exactly once) and requests a re-render at the call, before any settlement;
\* the render cycle that follows delivers loading true, data null, error null.
C16_RefetchStartsAndNotifies ==
    [][/\ RefetchStep =>
            /\ Len(QueryCalls(calls')) = 1
            /\ calls'[Len(calls')] = ForceUpdateCall
            /\ loading' = TRUE /\ data' = Null /\ error' = Null
       /\ (JustRefetched /\ RenderStep) =>
            /\ result'.loading = TRUE
            /\ result'.data = Null
            /\ result'.error = Null]_vars
C16_Witness ==
    /\ options.skip = TRUE
    /\ JustRefetched
    /\ loading = TRUE /\ data = Null /\ error = Null
    /\ result.loading = FALSE
\* C17: when the variables option is absent every call of query passes no
\* argument, whether a render cycle or refetch made it and whatever overrides
\* refetch was given; when it is present every call passes exactly one.
C17_ArgumentCountFollowsOption ==
    [][Started =>
          LET args == QueryCalls(calls')[1].args
          IN /\ ~Truthy(options'.variables) => Len(args) = 0
             /\ Truthy(options'.variables) => Len(args) = 1]_vars
OnErrorCalls == SelectSeq(calls', LAMBDA c : c.fn = "onError")

\* C19: when the still-current attempt i succeeds, the record becomes
\* data = Response(i), loading false, error null, onError is not invoked for
\* the attempt and the promise fetch returned resolves, whatever onCompleted
\* does, throwing included: neither the step of the then handler nor the
\* step that ends the chain records or reports a failure.
C19_SuccessIsRecordedAsSuccess ==
    [][\A i \in 1..Len(attempts) :
        /\ SettlesCurrent(i, "resolved") =>
             /\ data' = Response(i) /\ loading' = FALSE /\ error' = Null
             /\ OnErrorCalls = <<>>
             /\ attempts'[i].status = "fulfilled"
        /\ (attempts[i].settled = "resolved" /\ attempts[i].isLatest /\ ChainStep(i)) =>
             /\ data' = Response(i) /\ loading' = FALSE /\ error' = Null
             /\ OnErrorCalls = <<>>
             /\ attempts'[i].status = "fulfilled"]_vars
\* The record holds the outcome of the attempt started last (if any was).
LastAttemptRecorded ==
    \/ Len(attempts) = 0 /\ data = Null /\ error = Null
    \/ Len(attempts) > 0 /\ (data = Response(Len(attempts)) \/ error = Failure(Len(attempts)))

\* C20: when every promise settles and attempts stop being started, loading
\* becomes false and stays false, and the record then holds the result or the
\* failure of the attempt that was started last.
C20_EventuallySettled == <>[](loading = FALSE /\ LastAttemptRecorded)
C20_Witness ==
    /\ Len(attempts) = 2
    /\ \A i \in 1..2 : attempts[i].status \in {"fulfilled", "rejected"}
    /\ loading = FALSE
    /\ data = Response(2)
    /\ CallbackCalls(calls) = <<>> /\ calls # <<>>
====
